---- MODULE Spec2Model ----
(***************************************************************************)
(* Model of the shared single-game chess server (src/src/app.py and        *)
(* src/src/modules/helper.py).                                             *)
(*                                                                         *)
(* The process-wide state is the board, the move owner list, the           *)
(* orientation flag of the OrientationManager and the row list of the      *)
(* PGN_Tracker.  The rules engine the handlers call (chess.Board) is       *)
(* modelled on a reduced board of three files (a..c) and four ranks with   *)
(* kings, queens, rooks and pawns: move generation, check detection,       *)
(* promotion, push and the UCI text format follow the library the code     *)
(* calls.                                                                  *)
(***************************************************************************)
EXTENDS Integers, Sequences, FiniteSets, TLC

VARIABLES
    board,        \* app.board: [pos, turn, move_stack]
    move_owners,  \* app.move_owners
    orientation,  \* app.manager.orientation
    moves_list,   \* app.tracker.moves_list
    request,      \* the last request handled, as asked of the state before it
    response,     \* what the handler of that request returned
    hist,         \* <<move text, user>> of the moves accepted since the last reset
    events,       \* the push events the handler of the last request emitted
    pc,           \* per worker thread: the line its handler is at
    loc,          \* per worker thread: the locals of its handler
    nreq          \* requests started by the worker threads

vars == <<board, move_owners, orientation, moves_list, request, response,
          hist, events, pc, loc, nreq>>

\* The variables only the worker threads of the threaded server change.
cvars == <<pc, loc, nreq>>

Threads == {1, 2}

\* Cap on the requests the worker threads start.
MaxReqs == 2

NoSnapshot == [fen |-> "", pgn |-> "", statusText |-> "", orientation |-> "",
               moves |-> <<>>]

NoLocals == [op |-> "none", move |-> [from |-> 0, to |-> 0, promo |-> ""],
             name |-> "", status |-> "none", snap |-> NoSnapshot,
             sent |-> NoSnapshot]

\* Cap on the length of the move stack (keeps the state space finite).
MaxMoves == 4

\* Plies a game is followed beyond the cap once only the kings are left.
MaxOverMoves == 1

(***************************************************************************)
(* Rules engine: geometry of the reduced board.                            *)
(***************************************************************************)
Squares == 1..12

SquareName == <<"a1", "b1", "c1", "a2", "b2", "c2",
                "a3", "b3", "c3", "a4", "b4", "c4">>

FileOf(s) == ((s - 1) % 3) + 1

RankOf(s) == ((s - 1) \div 3) + 1

SquareAt(f, r) == (r - 1) * 3 + f

Abs(x) == IF x < 0 THEN -x ELSE x

Sgn(x) == IF x < 0 THEN -1 ELSE IF x > 0 THEN 1 ELSE 0

WHITE == TRUE

BLACK == FALSE

WhitePieces == {"K", "Q", "R", "P"}

BlackPieces == {"k", "q", "r", "p"}

ColorOf(p) == p \in WhitePieces

PiecesOf(color) == IF color THEN WhitePieces ELSE BlackPieces

King(color) == IF color THEN "K" ELSE "k"

Queen(color) == IF color THEN "Q" ELSE "q"

Rook(color) == IF color THEN "R" ELSE "r"

Pawn(color) == IF color THEN "P" ELSE "p"

\* Direction a pawn of the colour advances, and the rank it promotes on.
Forward(color) == IF color THEN 1 ELSE -1

LastRank(color) == IF color THEN 4 ELSE 1

Adjacent(a, b) ==
    /\ a # b
    /\ Abs(FileOf(a) - FileOf(b)) <= 1
    /\ Abs(RankOf(a) - RankOf(b)) <= 1

Straight(a, b) == a # b /\ (FileOf(a) = FileOf(b) \/ RankOf(a) = RankOf(b))

Diagonal(a, b) ==
    a # b /\ Abs(FileOf(a) - FileOf(b)) = Abs(RankOf(a) - RankOf(b))

Distance(a, b) ==
    IF Abs(FileOf(a) - FileOf(b)) > Abs(RankOf(a) - RankOf(b))
    THEN Abs(FileOf(a) - FileOf(b))
    ELSE Abs(RankOf(a) - RankOf(b))

\* The squares strictly between two squares on a common line.
Between(a, b) ==
    { SquareAt(FileOf(a) + k * Sgn(FileOf(b) - FileOf(a)),
               RankOf(a) + k * Sgn(RankOf(b) - RankOf(a))) :
        k \in 1..(Distance(a, b) - 1) }

ClearPath(pos, a, b) == \A s \in Between(a, b) : pos[s] = "."

\* The piece on square a attacks square b.
Attacks(pos, a, b) ==
    LET p == pos[a] IN
    CASE p \in {"K", "k"} -> Adjacent(a, b)
      [] p \in {"R", "r"} -> Straight(a, b) /\ ClearPath(pos, a, b)
      [] p \in {"Q", "q"} ->
            (Straight(a, b) \/ Diagonal(a, b)) /\ ClearPath(pos, a, b)
      [] p \in {"P", "p"} ->
            /\ RankOf(b) = RankOf(a) + Forward(ColorOf(p))
            /\ Abs(FileOf(b) - FileOf(a)) = 1
      [] OTHER -> FALSE

IsAttackedBy(pos, color, sq) ==
    \E a \in Squares : pos[a] \in PiecesOf(color) /\ Attacks(pos, a, sq)

\* chess.Board.is_check on a position with the given side to move.
InCheck(pos, color) ==
    \E k \in Squares : pos[k] = King(color) /\ IsAttackedBy(pos, ~color, k)

(***************************************************************************)
(* Moves and their UCI text.                                               *)
(***************************************************************************)
Promotions == {"q", "r"}

Move(f, t, p) == [from |-> f, to |-> t, promo |-> p]

NullMove == [from |-> 0, to |-> 0, promo |-> ""]

\* chess.Move.uci
uci(m) ==
    IF m = NullMove THEN "0000"
    ELSE SquareName[m.from] \o SquareName[m.to] \o m.promo

\* Every move chess.Move.from_uci can return besides the null move.
SyntacticMoves ==
    { m \in [from : Squares, to : Squares, promo : Promotions \cup {""}] :
        m.from # m.to }

UciTexts == { uci(m) : m \in SyntacticMoves }

UciTable == [t \in UciTexts |-> CHOOSE m \in SyntacticMoves : uci(m) = t]

PromotedPiece(color, promo) ==
    IF promo = "q" THEN Queen(color) ELSE Rook(color)

\* Position after the piece on m.from went to m.to.
Apply(pos, m) ==
    LET p == pos[m.from]
        q == IF m.promo # "" THEN PromotedPiece(ColorOf(p), m.promo) ELSE p
    IN [pos EXCEPT ![m.from] = ".", ![m.to] = q]

PawnMoves(pos, color, a) ==
    LET r == RankOf(a) + Forward(color)
        targets ==
            { b \in Squares :
                /\ RankOf(b) = r
                /\ \/ FileOf(b) = FileOf(a) /\ pos[b] = "."
                   \/ /\ Abs(FileOf(b) - FileOf(a)) = 1
                      /\ pos[b] \in PiecesOf(~color) }
    IN UNION { IF RankOf(b) = LastRank(color)
               THEN { Move(a, b, p) : p \in Promotions }
               ELSE { Move(a, b, "") } : b \in targets }

PieceMoves(pos, color, a) ==
    { Move(a, b, "") : b \in { s \in Squares :
        pos[s] \notin PiecesOf(color) /\ Attacks(pos, a, s) } }

PseudoLegalMoves(pos, color) ==
    UNION { IF pos[a] = Pawn(color) THEN PawnMoves(pos, color, a)
            ELSE PieceMoves(pos, color, a) :
            a \in { s \in Squares : pos[s] \in PiecesOf(color) } }

\* chess.Board.legal_moves
LegalMoves(b) ==
    { m \in PseudoLegalMoves(b.pos, b.turn) :
        ~InCheck(Apply(b.pos, m), b.turn) }

OnlyKings(pos) == \A s \in Squares : pos[s] \in {".", "K", "k"}

\* chess.Board.is_game_over: checkmate, stalemate or insufficient material.
IsGameOver(b) == LegalMoves(b) = {} \/ OnlyKings(b.pos)

\* The length up to which the move stack of the board is followed.
MoveCap(b) ==
    IF OnlyKings(b.pos) THEN MaxMoves + MaxOverMoves ELSE MaxMoves

(***************************************************************************)
(* chess.Board: construction, reset, push, parse_uci.                      *)
(***************************************************************************)
StartPos == <<"K", ".", ".",
              ".", ".", "p",
              "P", ".", ".",
              ".", ".", "k">>

NewBoard == [pos |-> StartPos, turn |-> WHITE, move_stack |-> <<>>]

Push_keeping_turn(b, m) ==
    [pos        |-> IF m = NullMove THEN b.pos ELSE Apply(b.pos, m),
     turn       |-> b.turn,
     move_stack |-> Append(b.move_stack, m)]

\* chess.Board.push: no legality check, the move goes on the stack.
Push(b, m) ==
    [pos        |-> IF m = NullMove THEN b.pos ELSE Apply(b.pos, m),
     turn       |-> ~b.turn,
     move_stack |-> Append(b.move_stack, m)]

\* chess.Move.from_uci: the move, or no move for text that is no UCI move.
FromUci(text) ==
    IF text = "0000" THEN [ok |-> TRUE, move |-> NullMove]
    ELSE IF text \in UciTexts THEN [ok |-> TRUE, move |-> UciTable[text]]
    ELSE [ok |-> FALSE, move |-> NullMove]

\* chess.Board.parse_uci: ok = FALSE stands for the ValueError it raises,
\* for text that is no UCI move and for a move illegal in the position.
\* legal is the legal-move set of the board parse_uci is called on.
parse_uci(legal, text) ==
    LET r == FromUci(text) IN
    IF ~r.ok THEN r
    ELSE IF r.move = NullMove THEN r
    ELSE IF r.move \notin legal THEN [ok |-> FALSE, move |-> r.move]
    ELSE r

(***************************************************************************)
(* helper.OrientationManager                                               *)
(***************************************************************************)
reset_orientation_keep(o) == o

\* o is self.orientation before the call; the result is its new value.
reset_orientation(o) == "white"

get_orientation(o) == o

toggle_orientation_stuck(o) == o

toggle_orientation(o) == IF o = "white" THEN "black" ELSE "white"

(***************************************************************************)
(* helper.PGN_Tracker                                                      *)
(***************************************************************************)
Last(s) == s[Len(s)]

\* PGN_Tracker.reset
tracker_reset == <<>>

\* The [-1] subscripts update_moves_list evaluates all exist; otherwise it
\* raises IndexError.
update_ok(rows, b, owners, orient) ==
    /\ b.move_stack # <<>>
    /\ owners # <<>>
    /\ orient = "white" \/ rows # <<>>

update_moves_list_index(rows, b, owners, orient) ==
    LET move_index == Len(rows) * 2
        move_number == move_index + 1
    IN IF orient = "white"
       THEN Append(rows, [MoveNo    |-> move_number,
                          WhiteMove |-> uci(Last(b.move_stack)),
                          WhiteUser |-> Last(owners),
                          BlackMove |-> "waiting",
                          BlackUser |-> "waiting"])
       ELSE [rows EXCEPT ![Len(rows)].BlackMove = uci(Last(b.move_stack)),
                         ![Len(rows)].BlackUser = Last(owners)]

update_moves_list_append(rows, b, owners, orient) ==
    Append(rows, [MoveNo    |-> Len(rows) + 1,
                  WhiteMove |-> uci(Last(b.move_stack)),
                  WhiteUser |-> Last(owners),
                  BlackMove |-> "waiting",
                  BlackUser |-> "waiting"])

update_moves_list(rows, b, owners, orient) ==
    LET move_index == Len(rows) * 2
        move_number == (move_index \div 2) + 1
    IN IF orient = "white"
       THEN Append(rows, [MoveNo    |-> move_number,
                          WhiteMove |-> uci(Last(b.move_stack)),
                          WhiteUser |-> Last(owners),
                          BlackMove |-> "waiting",
                          BlackUser |-> "waiting"])
       ELSE [rows EXCEPT ![Len(rows)].BlackMove = uci(Last(b.move_stack)),
                         ![Len(rows)].BlackUser = Last(owners)]

(***************************************************************************)
(* helper.current_pgn, helper.status_text and the FEN of the board.        *)
(***************************************************************************)
\* chess.Board.result
Result(b) ==
    IF LegalMoves(b) = {}
    THEN IF InCheck(b.pos, b.turn)
         THEN (IF b.turn = WHITE THEN "0-1" ELSE "1-0")
         ELSE "1/2-1/2"
    ELSE IF OnlyKings(b.pos) THEN "1/2-1/2" ELSE "*"

\* chess.Board.fen: placement and side to move (the reduced board has no
\* castling, en passant or clocks).
fen(b) == [placement |-> b.pos, turn |-> IF b.turn THEN "w" ELSE "b"]

\* The game current_pgn prints: the result header and one node per move
\* of the stack, commented with its owner while the owner list reaches.
current_pgn(b, owners) ==
    [Result |-> Result(b),
     nodes  |-> [i \in 1..Len(b.move_stack) |->
                   [move    |-> b.move_stack[i],
                    comment |-> IF i - 1 < Len(owners)
                                THEN "Move made by " \o owners[i]
                                ELSE ""]]]

\* The letter SAN gives the piece ("" for a pawn).
PieceLetter(p) ==
    IF p \in {"K", "k"} THEN "K"
    ELSE IF p \in {"Q", "q"} THEN "Q"
    ELSE IF p \in {"R", "r"} THEN "R"
    ELSE ""

san_without_promotion(b, m) ==
    LET p == b.pos[m.from]
        others == { o \in LegalMoves(b) :
                      o.to = m.to /\ o.from # m.from /\ b.pos[o.from] = p }
    IN [piece |-> PieceLetter(p),
        hint  |-> IF PieceLetter(p) = ""
                  THEN (IF FileOf(m.from) # FileOf(m.to) THEN FileOf(m.from) ELSE 0)
                  ELSE (IF others # {} THEN m.from ELSE 0),
        to    |-> m.to,
        promo |-> ""]

\* chess.Board.san of a legal move, as the PGN exporter writes it: piece
\* letter, the origin only as far as needed to tell the move from the
\* other legal moves of such a piece to the square (the origin file for a
\* capturing pawn), destination, promotion piece.
san(b, m) ==
    LET p == b.pos[m.from]
        others == { o \in LegalMoves(b) :
                      o.to = m.to /\ o.from # m.from /\ b.pos[o.from] = p }
    IN [piece |-> PieceLetter(p),
        hint  |-> IF PieceLetter(p) = ""
                  THEN (IF FileOf(m.from) # FileOf(m.to) THEN FileOf(m.from) ELSE 0)
                  ELSE (IF others # {} THEN m.from ELSE 0),
        to    |-> m.to,
        promo |-> m.promo]

\* chess.Board.parse_san: the one legal move the token matches; ok = FALSE
\* stands for the error it raises when none or several match.
parse_san(b, tok) ==
    LET matches ==
            { m \in LegalMoves(b) :
                /\ PieceLetter(b.pos[m.from]) = tok.piece
                /\ b.pos[m.from] \in PiecesOf(b.turn)
                /\ m.to = tok.to
                /\ m.promo = tok.promo
                /\ \/ tok.hint = 0
                   \/ tok.piece = "" /\ FileOf(m.from) = tok.hint
                   \/ tok.piece # "" /\ m.from = tok.hint }
    IN IF Cardinality(matches) = 1
       THEN [ok |-> TRUE, move |-> CHOOSE m \in matches : TRUE]
       ELSE [ok |-> FALSE, move |-> NullMove]

RECURSIVE MoveText(_, _, _)
\* The movetext of the game from node i on, b being the position there.
MoveText(b, nodes, i) ==
    IF i > Len(nodes) THEN <<>>
    ELSE <<[san |-> san(b, nodes[i].move), comment |-> nodes[i].comment]>>
            \o MoveText(Push(b, nodes[i].move), nodes, i + 1)

\* str(game) at the end of current_pgn: the exporter replays the main line
\* from the starting position and writes each move in SAN, followed by
\* its comment.
export(game) ==
    [Result |-> game.Result, movetext |-> MoveText(NewBoard, game.nodes, 1)]

RECURSIVE ReadMoves(_, _, _)
\* The moves read back from token i on, b being the position there;
\* reading stops at a token that is no move in its position.
ReadMoves(b, movetext, i) ==
    IF i > Len(movetext) THEN <<>>
    ELSE LET r == parse_san(b, movetext[i].san) IN
         IF ~r.ok THEN <<>>
         ELSE <<r.move>> \o ReadMoves(Push(b, r.move), movetext, i + 1)

\* chess.pgn.read_game on the exported text: the main line.
read_game(text) == ReadMoves(NewBoard, text.movetext, 1)

status_text_winner_is_mover(b) ==
    IF IsGameOver(b)
    THEN LET r == Result(b) IN
         IF r = "0-1" THEN "Checkmate! White wins!"
         ELSE IF r = "1-0" THEN "Checkmate! Black wins!"
         ELSE IF r = "1/2-1/2" THEN "Game over. Draw!"
         ELSE "Game over."
    ELSE LET turn_str == IF b.turn = WHITE THEN "White" ELSE "Black" IN
         IF InCheck(b.pos, b.turn)
         THEN turn_str \o " to move, and they're in check!"
         ELSE turn_str \o " to move."

status_text(b) ==
    IF IsGameOver(b)
    THEN LET r == Result(b) IN
         IF r = "1-0" THEN "Checkmate! White wins!"
         ELSE IF r = "0-1" THEN "Checkmate! Black wins!"
         ELSE IF r = "1/2-1/2" THEN "Game over. Draw!"
         ELSE "Game over."
    ELSE LET turn_str == IF b.turn = WHITE THEN "White" ELSE "Black" IN
         IF InCheck(b.pos, b.turn)
         THEN turn_str \o " to move, and they're in check!"
         ELSE turn_str \o " to move."

(***************************************************************************)
(* Request inputs.                                                         *)
(***************************************************************************)
\* Values login.get_username_cookie returns; "" is the absent cookie.
Cookies == {"", "Alice"}

\* Move texts clients send: the moves legal now, the moves legal at the
\* start (mostly illegal later), the null move, a square pair no piece
\* can ever play, and text that is no move.
StartTexts == { uci(m) : m \in LegalMoves(NewBoard) }

MoveTexts(legal) ==
    { uci(m) : m \in legal } \cup StartTexts
        \cup {"0000", "a1c4", "", "a1a1"}

\* Square texts clients send to legal_moves.
SquareTexts == {"a1", "a3", "c2", "b3", ""}

\* chess.parse_square: the square, or 0 for the ValueError it raises.
parse_square(text) ==
    IF \E s \in Squares : SquareName[s] = text
    THEN CHOOSE s \in Squares : SquareName[s] = text
    ELSE 0

\* Order in which the destinations are listed.
MoveKey(m) == m.to * 3 + (IF m.promo = "" THEN 0 ELSE IF m.promo = "q" THEN 1 ELSE 2)

RECURSIVE MovesInOrder(_)
MovesInOrder(S) ==
    IF S = {} THEN <<>>
    ELSE LET m == CHOOSE x \in S : \A y \in S : MoveKey(x) <= MoveKey(y)
         IN <<m>> \o MovesInOrder(S \ {m})

possible_moves_unfiltered(legal, from_sq) ==
    LET ms == MovesInOrder(legal)
    IN [i \in 1..Len(ms) |-> SquareName[ms[i].to]]

\* The loop of legal_moves: one destination name per legal move that
\* starts on from_sq.
possible_moves(legal, from_sq) ==
    LET ms == MovesInOrder({ m \in legal : m.from = from_sq })
    IN [i \in 1..Len(ms) |-> SquareName[ms[i].to]]

NoRequest == [op |-> "none", syntactic |-> FALSE, legal |-> FALSE, plies |-> 0]

NoResponse == [op |-> "none"]

is_legal_any(move, legal) == TRUE

\* The test "move in board.legal_moves" of make_move.
is_legal(move, legal) == move \in legal

(***************************************************************************)
(* Request handlers of app.py, each run to completion.  request is what    *)
(* was asked of the state before the handler ran: whether the move text    *)
(* is a UCI move at all, whether that move is in the legal-move set of     *)
(* the board, and the length of the move stack.                            *)
(***************************************************************************)
Snapshot ==
    [fen |-> fen(board), pgn |-> current_pgn(board, move_owners),
     statusText |-> status_text(board),
     orientation |-> get_orientation(orientation), moves |-> moves_list]

\* The data of the board_update event make_move emits (lines 82-88).
board_update(b, owners, o, rows) ==
    [fen |-> fen(b), pgn |-> current_pgn(b, owners),
     statusText |-> status_text(b),
     orientation |-> get_orientation(o), moves |-> rows]

reset_update_with_moves(b, owners, o, rows) ==
    [fen |-> fen(b), pgn |-> current_pgn(b, owners),
     statusText |-> status_text(b),
     orientation |-> get_orientation(o), moves |-> rows]

\* The data of the board_update event reset emits (lines 143-148).
reset_update(b, owners, o, rows) ==
    [fen |-> fen(b), pgn |-> current_pgn(b, owners),
     statusText |-> status_text(b),
     orientation |-> get_orientation(o)]

emit_dropped(name, data, up) == <<>>

\* socketio.emit(name, data, to=None): one event handed to the server for
\* fan-out.  up tells whether the packet reaches the connected client.
emit(name, data, up) == <<[event |-> name, data |-> data, delivered |-> up]>>

emit_raises_when_down(up) == ~up

\* socketio.emit raises in the handler: it never does, the packet is only
\* queued for the client and a client that is gone is logged and skipped.
emit_raises(up) == FALSE

\* legal is board.legal_moves, the legal-move set of the current board.
make_move(move_uci, cookie, legal) ==
    LET parsed == parse_uci(legal, move_uci)
        name_in_cookie == IF cookie = "" THEN "Anonymous" ELSE cookie
        b1 == Push(board, parsed.move)
        o1 == Append(move_owners, name_in_cookie)
        orient == get_orientation(orientation)
    IN
    /\ request' = [op |-> "make_move", syntactic |-> FromUci(move_uci).ok,
                   legal |-> FromUci(move_uci).ok
                             /\ FromUci(move_uci).move \in legal,
                   plies |-> Len(board.move_stack),
                   over |-> legal = {} \/ OnlyKings(board.pos)]
    /\ IF ~parsed.ok
       THEN /\ response' = [op |-> "make_move", status |-> "error",
                            message |-> "Invalid move syntax."]
            /\ events' = <<>>
            /\ UNCHANGED <<board, move_owners, orientation, moves_list, hist>>
       ELSE IF is_legal(parsed.move, legal)
       THEN /\ Len(board.move_stack) < MoveCap(board)
            /\ board' = b1
            /\ move_owners' = o1
            /\ hist' = Append(hist, <<move_uci, name_in_cookie>>)
            /\ IF update_ok(moves_list, b1, o1, orient)
               THEN /\ moves_list' = update_moves_list(moves_list, b1, o1, orient)
                    /\ orientation' = toggle_orientation(orientation)
                    /\ \E data \in {board_update(b1, o1, orientation',
                                                 moves_list')},
                          up \in BOOLEAN :
                         /\ events' = emit("board_update", data, up)
                         /\ IF emit_raises(up)
                            THEN response' = [op |-> "make_move",
                                              status |-> "exception",
                                              message |-> "emit"]
                            ELSE response' = [op |-> "make_move",
                                              status |-> "ok",
                                              fen |-> fen(b1),
                                              orientation |-> orientation',
                                              moves |-> moves_list']
               ELSE /\ response' = [op |-> "make_move", status |-> "exception",
                                    message |-> "IndexError"]
                    /\ events' = <<>>
                    /\ UNCHANGED <<orientation, moves_list>>
       ELSE /\ response' = [op |-> "make_move", status |-> "error",
                            message |-> "Illegal move."]
            /\ events' = <<>>
            /\ UNCHANGED <<board, move_owners, orientation, moves_list, hist>>
    /\ UNCHANGED cvars

reset_keep_owners ==
    /\ request' = [op |-> "reset", syntactic |-> FALSE, legal |-> FALSE,
                   plies |-> Len(board.move_stack)]
    /\ board' = NewBoard
    /\ move_owners' = move_owners
    /\ moves_list' = tracker_reset
    /\ orientation' = reset_orientation(orientation)
    /\ hist' = <<>>
    /\ \E data \in {reset_update(board', move_owners', orientation',
                                 moves_list')},
          up \in BOOLEAN :
         /\ events' = emit("board_update", data, up)
         /\ response' = IF emit_raises(up)
                        THEN [op |-> "reset", status |-> "exception"]
                        ELSE [op |-> "reset", status |-> "redirect"]
    /\ UNCHANGED cvars

reset ==
    /\ request' = [op |-> "reset", syntactic |-> FALSE, legal |-> FALSE,
                   plies |-> Len(board.move_stack)]
    /\ board' = NewBoard
    /\ move_owners' = <<>>
    /\ moves_list' = tracker_reset
    /\ orientation' = reset_orientation(orientation)
    /\ hist' = <<>>
    /\ \E data \in {reset_update(board', move_owners', orientation',
                                 moves_list')},
          up \in BOOLEAN :
         /\ events' = emit("board_update", data, up)
         /\ response' = IF emit_raises(up)
                        THEN [op |-> "reset", status |-> "exception"]
                        ELSE [op |-> "reset", status |-> "redirect"]
    /\ UNCHANGED cvars

game_status ==
    /\ request' = [op |-> "game_status", syntactic |-> FALSE, legal |-> FALSE,
                   plies |-> Len(board.move_stack)]
    /\ response' = [op |-> "game_status", status |-> "ok", snapshot |-> Snapshot]
    /\ events' = <<>>
    /\ UNCHANGED <<board, move_owners, orientation, moves_list, hist>>
    /\ UNCHANGED cvars

legal_moves(square_str, legal) ==
    LET from_sq == parse_square(square_str) IN
    /\ request' = [op |-> "legal_moves", syntactic |-> from_sq # 0,
                   legal |-> FALSE, plies |-> Len(board.move_stack),
                   square |-> square_str]
    /\ response' = [op |-> "legal_moves", status |-> "ok",
                    moves |-> IF from_sq = 0 THEN <<>>
                              ELSE possible_moves(legal, from_sq)]
    /\ events' = <<>>
    /\ UNCHANGED <<board, move_owners, orientation, moves_list, hist>>
    /\ UNCHANGED cvars

Init ==
    /\ board = NewBoard
    /\ move_owners = <<>>
    /\ orientation = "white"
    /\ moves_list = <<>>
    /\ request = NoRequest
    /\ response = NoResponse
    /\ hist = <<>>
    /\ events = <<>>
    /\ pc = [t \in Threads |-> "idle"]
    /\ loc = [t \in Threads |-> NoLocals]
    /\ nreq = 0

Next ==
    \/ \E legal \in {LegalMoves(board)} :
         \E t \in MoveTexts(legal), c \in Cookies : make_move(t, c, legal)
    \/ reset
    \/ game_status
    \/ \E legal \in {LegalMoves(board)} :
         \E sq \in SquareTexts : legal_moves(sq, legal)

Spec == Init /\ [][Next]_vars

(***************************************************************************)
(* The same handlers on the threaded server: app.py takes no lock, so a    *)
(* worker thread can be preempted between any two statements that touch    *)
(* the shared objects.  pc[t] is the statement thread t executes next,     *)
(* loc[t] its locals; loc[t].status is what the handler returned.          *)
(***************************************************************************)
svars == <<request, response, hist, events>>

Ready(t) == pc[t] \in {"idle", "done"} /\ nreq < MaxReqs

Goto(t, label) == pc' = [pc EXCEPT ![t] = label]

Finish(t, locals) ==
    /\ pc' = [pc EXCEPT ![t] = "done"]
    /\ loc' = [loc EXCEPT ![t] = locals]

\* make_move, lines 66-70: the request arrives and its text is parsed.
c_make_move(t, move_uci, cookie, legal) ==
    LET parsed == parse_uci(legal, move_uci)
        name_in_cookie == IF cookie = "" THEN "Anonymous" ELSE cookie
    IN
    /\ Ready(t)
    /\ nreq' = nreq + 1
    /\ IF ~parsed.ok
       THEN Finish(t, [NoLocals EXCEPT !.op = "make_move",
                                       !.status = "Invalid move syntax."])
       ELSE /\ Goto(t, "check")
            /\ loc' = [loc EXCEPT ![t] =
                        [NoLocals EXCEPT !.op = "make_move",
                                         !.move = parsed.move,
                                         !.name = name_in_cookie]]
    /\ UNCHANGED <<board, move_owners, orientation, moves_list, svars>>

\* make_move, line 72 (and 99-100 when the test fails).
c_check(t, legal) ==
    /\ pc[t] = "check"
    /\ IF is_legal(loc[t].move, legal)
       THEN Goto(t, "push") /\ UNCHANGED loc
       ELSE Finish(t, [loc[t] EXCEPT !.status = "Illegal move."])
    /\ UNCHANGED <<board, move_owners, orientation, moves_list, svars, nreq>>

\* make_move, line 73.  push appends the move to the stack and then takes
\* the piece off its origin square; it asserts that there is one.
c_push(t) ==
    /\ pc[t] = "push"
    /\ Len(board.move_stack) < MoveCap(board)
    /\ IF board.pos[loc[t].move.from] = "."
       THEN /\ board' = [board EXCEPT
                            !.move_stack = Append(@, loc[t].move)]
            /\ Finish(t, [loc[t] EXCEPT !.status = "AssertionError"])
       ELSE /\ board' = Push(board, loc[t].move)
            /\ Goto(t, "append")
            /\ UNCHANGED loc
    /\ UNCHANGED <<move_owners, orientation, moves_list, svars, nreq>>

\* make_move, lines 74-77.
c_append(t) ==
    /\ pc[t] = "append"
    /\ move_owners' = Append(move_owners, loc[t].name)
    /\ Goto(t, "update")
    /\ UNCHANGED <<board, orientation, moves_list, svars, loc, nreq>>

\* make_move, line 78.
c_update(t) ==
    LET orient == get_orientation(orientation) IN
    /\ pc[t] = "update"
    /\ IF update_ok(moves_list, board, move_owners, orient)
       THEN /\ moves_list' =
                  update_moves_list(moves_list, board, move_owners, orient)
            /\ Goto(t, "toggle")
            /\ UNCHANGED loc
       ELSE /\ Finish(t, [loc[t] EXCEPT !.status = "IndexError"])
            /\ UNCHANGED moves_list
    /\ UNCHANGED <<board, move_owners, orientation, svars, nreq>>

\* make_move, line 79.
c_toggle(t) ==
    /\ pc[t] = "toggle"
    /\ orientation' = toggle_orientation(orientation)
    /\ Goto(t, "emit")
    /\ UNCHANGED <<board, move_owners, moves_list, svars, loc, nreq>>

\* make_move, lines 80-90: the push event, built from the shared objects
\* as they are now; loc[t].sent is the data this handler emitted.
c_emit(t) ==
    /\ pc[t] = "emit"
    /\ Goto(t, "return")
    /\ loc' = [loc EXCEPT ![t].sent =
                board_update(board, move_owners, orientation, moves_list)]
    /\ UNCHANGED <<board, move_owners, orientation, moves_list, svars, nreq>>

\* make_move, lines 91-98: the ok response, read from the shared objects
\* again.
c_return(t) ==
    /\ pc[t] = "return"
    /\ Finish(t, [loc[t] EXCEPT
                     !.status = "ok",
                     !.snap.fen = fen(board),
                     !.snap.orientation = get_orientation(orientation),
                     !.snap.moves = moves_list])
    /\ UNCHANGED <<board, move_owners, orientation, moves_list, svars, nreq>>

\* reset, line 137.
c_reset(t) ==
    /\ Ready(t)
    /\ nreq' = nreq + 1
    /\ board' = NewBoard
    /\ Goto(t, "clear_owners")
    /\ loc' = [loc EXCEPT ![t] = [NoLocals EXCEPT !.op = "reset"]]
    /\ UNCHANGED <<move_owners, orientation, moves_list, svars>>

\* reset, line 138.
c_reset_owners(t) ==
    /\ pc[t] = "clear_owners"
    /\ move_owners' = <<>>
    /\ Goto(t, "reset_tracker")
    /\ UNCHANGED <<board, orientation, moves_list, svars, loc, nreq>>

\* reset, line 139.
c_reset_tracker(t) ==
    /\ pc[t] = "reset_tracker"
    /\ moves_list' = tracker_reset
    /\ Goto(t, "reset_orientation")
    /\ UNCHANGED <<board, move_owners, orientation, svars, loc, nreq>>

\* reset, lines 140-151.
c_reset_orientation(t) ==
    /\ pc[t] = "reset_orientation"
    /\ orientation' = reset_orientation(orientation)
    /\ Finish(t, [loc[t] EXCEPT !.status = "redirect"])
    /\ UNCHANGED <<board, move_owners, moves_list, svars, nreq>>

\* game_status, lines 116-118: the values computed from the board.
c_game_status(t) ==
    /\ Ready(t)
    /\ nreq' = nreq + 1
    /\ Goto(t, "view")
    /\ loc' = [loc EXCEPT ![t] =
                [NoLocals EXCEPT
                    !.op = "game_status",
                    !.snap = [NoSnapshot EXCEPT
                                 !.fen = fen(board),
                                 !.pgn = current_pgn(board, move_owners),
                                 !.statusText = status_text(board)]]]
    /\ UNCHANGED <<board, move_owners, orientation, moves_list, svars>>

\* game_status, lines 119-120.
c_game_status_view(t) ==
    /\ pc[t] = "view"
    /\ Finish(t, [loc[t] EXCEPT !.status = "ok",
                                !.snap.orientation = get_orientation(orientation),
                                !.snap.moves = moves_list])
    /\ UNCHANGED <<board, move_owners, orientation, moves_list, svars, nreq>>

\* legal_moves, lines 39-50.
c_legal_moves(t, square_str, legal) ==
    LET from_sq == parse_square(square_str) IN
    /\ Ready(t)
    /\ nreq' = nreq + 1
    /\ Finish(t, [NoLocals EXCEPT
                     !.op = "legal_moves", !.status = "ok",
                     !.snap.moves = IF from_sq = 0 THEN <<>>
                                    ELSE possible_moves(legal, from_sq)])
    /\ UNCHANGED <<board, move_owners, orientation, moves_list, svars>>

NextConc ==
    \/ \E t \in Threads, legal \in {LegalMoves(board)} :
         \E m \in MoveTexts(legal), c \in Cookies : c_make_move(t, m, c, legal)
    \/ \E t \in Threads, legal \in {LegalMoves(board)} : c_check(t, legal)
    \/ \E t \in Threads : c_push(t)
    \/ \E t \in Threads : c_append(t)
    \/ \E t \in Threads : c_update(t)
    \/ \E t \in Threads : c_toggle(t)
    \/ \E t \in Threads : c_emit(t)
    \/ \E t \in Threads : c_return(t)
    \/ \E t \in Threads : c_reset(t)
    \/ \E t \in Threads : c_reset_owners(t)
    \/ \E t \in Threads : c_reset_tracker(t)
    \/ \E t \in Threads : c_reset_orientation(t)
    \/ \E t \in Threads : c_game_status(t)
    \/ \E t \in Threads : c_game_status_view(t)
    \/ \E t \in Threads, legal \in {LegalMoves(board)} :
         \E sq \in SquareTexts : c_legal_moves(t, sq, legal)

SpecConc == Init /\ [][NextConc]_vars

(***************************************************************************)
(* Properties of the serialized handlers (specification Spec).             *)
(***************************************************************************)
StateUnchanged ==
    UNCHANGED <<board, move_owners, moves_list, orientation>>

UserNames == { IF c = "" THEN "Anonymous" ELSE c : c \in Cookies }

\* C1: after every completed make_move (accepted or rejected) and every
\* completed reset, the move owner list is as long as the move stack.
C1_OwnersMatchStack == Len(move_owners) = Len(board.move_stack)

C1_Witness ==
    /\ request.op = "make_move"
    /\ response.status = "ok"
    /\ Len(move_owners) = 3

\* C2: a move attempt whose text is no move, or whose move is not in the
\* legal-move set of the current board, leaves board, owner list, move
\* rows and orientation as they were.
C2_RejectedMoveChangesNothing ==
    [][(request'.op = "make_move" /\ ~request'.legal) => StateUnchanged]_vars

C2_Witness ==
    /\ request.op = "make_move"
    /\ request.syntactic
    /\ ~request.legal
    /\ response.status = "error"
    /\ Len(board.move_stack) = 2
    /\ Len(moves_list) = 1

\* C3: move text that is no square-pair move is answered with "Invalid
\* move syntax.", and a square-pair move that is not in the legal-move set
\* of the current board is answered with "Illegal move.".
C3_FailureKinds ==
    (request.op = "make_move" /\ ~request.legal) =>
        /\ response.status = "error"
        /\ response.message = IF request.syntactic THEN "Illegal move."
                              ELSE "Invalid move syntax."

\* C7: after reset the board is the starting position with an empty move
\* stack, and owner list and move rows are empty and orientation is white.
C7_ResetRestoresStart ==
    request.op = "reset" =>
        /\ board.pos = StartPos
        /\ board.turn = WHITE
        /\ board.move_stack = <<>>
        /\ move_owners = <<>>
        /\ moves_list = <<>>
        /\ orientation = "white"

C7_Witness ==
    /\ request.op = "reset"
    /\ request.plies = 3

\* C8: the orientation starts at white, flips on every accepted make_move,
\* is white after reset and is changed by no other request.
C8_OrientationSteps ==
    /\ orientation = "white"
    /\ [][IF request'.op = "make_move" /\ response'.status = "ok"
          THEN /\ orientation' # orientation
               /\ orientation' \in {"white", "black"}
               /\ orientation' = (IF Len(hist') % 2 = 0 THEN "white" ELSE "black")
          ELSE IF request'.op = "reset"
          THEN orientation' = "white"
          ELSE orientation' = orientation]_vars

C8_Witness ==
    /\ request.op = "make_move"
    /\ response.status = "ok"
    /\ Len(hist) = 2
    /\ orientation = "white"

\* The rows n accepted moves must have produced.
ExpectedRows(h) ==
    [k \in 1..((Len(h) + 1) \div 2) |->
        [MoveNo    |-> k,
         WhiteMove |-> h[2 * k - 1][1],
         WhiteUser |-> h[2 * k - 1][2],
         BlackMove |-> IF 2 * k <= Len(h) THEN h[2 * k][1] ELSE "waiting",
         BlackUser |-> IF 2 * k <= Len(h) THEN h[2 * k][2] ELSE "waiting"]]

\* C9: after n accepted moves since the last reset there are ceil(n/2)
\* rows; row k is numbered k, holds move 2k-1 and its user as white and
\* move 2k and its user as black, or "waiting" twice when 2k > n.
C9_RowsPairMoves == moves_list = ExpectedRows(hist)

C9_Witness ==
    /\ Len(hist) = 4
    /\ Len(moves_list) = 2
    /\ moves_list[2].BlackMove # "waiting"
    /\ moves_list[1].WhiteUser # moves_list[1].BlackUser

\* C10: at most one row is open (black move "waiting") and it is the last
\* one; every earlier row holds real moves and users on both sides.
C10_OnlyLastRowOpen ==
    \A i \in 1..Len(moves_list) :
        /\ moves_list[i].WhiteMove \in UciTexts
        /\ moves_list[i].WhiteUser \in UserNames
        /\ i < Len(moves_list) =>
              /\ moves_list[i].BlackMove \in UciTexts
              /\ moves_list[i].BlackUser \in UserNames
        /\ moves_list[i].BlackMove \notin UciTexts =>
              /\ moves_list[i].BlackMove = "waiting"
              /\ moves_list[i].BlackUser = "waiting"

C10_Witness ==
    /\ Len(moves_list) = 2
    /\ moves_list[2].BlackMove = "waiting"
    /\ moves_list[1].BlackMove # "waiting"

(***************************************************************************)
(* Properties of the handlers on the threaded server (SpecConc).           *)
(***************************************************************************)
Quiescent == \A t \in Threads : pc[t] \in {"idle", "done"}

\* C4: with concurrent make_move requests every move pushed onto the
\* board is in the legal-move set of the position it is applied to, and
\* once no handler is running every pushed move has its one owner entry
\* and its one place in the rows.
C4_PushedMoveIsLegal ==
    /\ [][Len(board'.move_stack) = Len(board.move_stack) + 1 =>
            Last(board'.move_stack) \in LegalMoves(board)]_vars
    /\ [](Quiescent =>
            /\ Len(move_owners) = Len(board.move_stack)
            /\ Len(moves_list) = (Len(board.move_stack) + 1) \div 2)

\* A snapshot is one a serialized server can return: every move of the
\* board has its owner comment, the orientation is the parity of the
\* number of moves, and the rows pair exactly those moves and owners.
SerialSnapshot(s) ==
    LET nodes == s.pgn.nodes
        n == Len(nodes)
        Owned(i, user) == nodes[i].comment = "Move made by " \o user
    IN /\ \A i \in 1..n : nodes[i].comment # ""
       /\ s.orientation = (IF n % 2 = 0 THEN "white" ELSE "black")
       /\ Len(s.moves) = (n + 1) \div 2
       /\ \A k \in 1..Len(s.moves) :
            /\ 2 * k - 1 <= n
            /\ s.moves[k].WhiteMove = uci(nodes[2 * k - 1].move)
            /\ Owned(2 * k - 1, s.moves[k].WhiteUser)
            /\ IF 2 * k <= n
               THEN /\ s.moves[k].BlackMove = uci(nodes[2 * k].move)
                    /\ Owned(2 * k, s.moves[k].BlackUser)
               ELSE s.moves[k].BlackMove = "waiting"

\* C5: a game_status that runs concurrently with a make_move or reset
\* returns the state fully before or fully after the mutation, never a
\* board that holds a move the owners, rows or orientation do not show.
C5_StatusSeesSerialState ==
    \A t \in Threads :
        (pc[t] = "done" /\ loc[t].op = "game_status") =>
            SerialSnapshot(loc[t].snap)

\* C6: under every interleaving each make_move ends in ok, "Illegal
\* move." or "Invalid move syntax." and no handler raises.
C6_NoHandlerRaises ==
    \A t \in Threads :
        pc[t] = "done" =>
            /\ loc[t].status \notin {"IndexError", "AssertionError"}
            /\ loc[t].op = "make_move" =>
                  loc[t].status \in {"ok", "Illegal move.", "Invalid move syntax."}

\* C12: the board_update of an accepted move is a consistent snapshot of
\* the state right after that move, its last half-move is the move just
\* applied, and its fen, orientation and moves are those of the ok
\* response of the same request, also when other make_move and reset
\* requests run concurrently.
C12_UpdateIsSnapshotOfMove ==
    \A t \in Threads :
        (pc[t] = "done" /\ loc[t].op = "make_move" /\ loc[t].status = "ok") =>
            LET sent == loc[t].sent IN
            /\ SerialSnapshot(sent)
            /\ Len(sent.pgn.nodes) > 0
            /\ Last(sent.pgn.nodes).move = loc[t].move
            /\ sent.fen = loc[t].snap.fen
            /\ sent.orientation = loc[t].snap.orientation
            /\ sent.moves = loc[t].snap.moves

(***************************************************************************)
(* Properties of the push events and of the read handlers (specification   *)
(* Spec, handlers run to completion one after another).                    *)
(***************************************************************************)
\* The request just handled changed the game: a legal move or a reset.
Accepted == request.op = "make_move" /\ request.legal

WasReset == request.op = "reset"

\* C11: every accepted make_move and every reset emits exactly one
\* board_update, built after the mutation is complete (it shows the state
\* the handler leaves); a rejected move, legal_moves and game_status emit
\* none.
C11_OneUpdatePerChange ==
    IF Accepted \/ WasReset
    THEN /\ Len(events) = 1
         /\ events[1].event = "board_update"
         /\ events[1].data.fen = fen(board)
         /\ events[1].data.pgn = current_pgn(board, move_owners)
         /\ events[1].data.statusText = status_text(board)
         /\ events[1].data.orientation = get_orientation(orientation)
    ELSE events = <<>>

C11_Witness ==
    /\ Accepted
    /\ request.plies = 1
    /\ Len(events) = 1
    /\ Len(events[1].data.pgn.nodes) = 2

\* The square text names no square, an empty square, or a piece that has
\* no legal move on the board as it is.
NoMoveFrom(b, text) ==
    LET sq == parse_square(text) IN
    \/ sq = 0
    \/ b.pos[sq] = "."
    \/ ~\E m \in LegalMoves(b) : m.from = sq

\* C13: legal_moves never fails and never changes the board, the owners,
\* the rows or the orientation; for a text that is no square, an empty
\* square or a piece without a legal move it answers with the empty list.
C13_LegalMovesTotal ==
    /\ [][request'.op = "legal_moves" =>
            /\ StateUnchanged
            /\ response'.op = "legal_moves"
            /\ response'.status = "ok"]_vars
    /\ []((request.op = "legal_moves" /\ NoMoveFrom(board, request.square))
            => response.moves = <<>>)

C13_Witness ==
    /\ request.op = "legal_moves"
    /\ request.square = "c2"
    /\ board.pos[parse_square("c2")] = "p"
    /\ board.turn = WHITE
    /\ response.moves = <<>>

\* The board_update of the request just handled did not reach the client.
DeliveryFailed == events # <<>> /\ ~events[1].delivered

ExpectedStatus(b) ==
    LET side == IF b.turn = WHITE THEN "White" ELSE "Black"
        stuck == LegalMoves(b) = {}
        check == InCheck(b.pos, b.turn)
    IN IF stuck /\ check
       THEN (IF b.turn = BLACK THEN "Checkmate! White wins!"
                               ELSE "Checkmate! Black wins!")
       ELSE IF stuck \/ OnlyKings(b.pos) THEN "Game over. Draw!"
       ELSE IF check THEN side \o " to move, and they're in check!"
       ELSE side \o " to move."

\* C16: the status text is a function of the board alone: "Checkmate!
\* White wins!" for 1-0, "Checkmate! Black wins!" for 0-1, "Game over.
\* Draw!" for 1/2-1/2 when the game is over; otherwise "<Side> to move,
\* and they're in check!" or "<Side> to move." for the side to move.
\* Checked on the status every game_status returns.
C16_StatusFollowsBoard ==
    request.op = "game_status" =>
        \E expected \in {ExpectedStatus(board)},
           result \in {response.snapshot.pgn.Result} :
            /\ response.snapshot.statusText = status_text(board)
            /\ response.snapshot.statusText = expected
            /\ (result = "1-0") = (expected = "Checkmate! White wins!")
            /\ (result = "0-1") = (expected = "Checkmate! Black wins!")
            /\ (result = "1/2-1/2") = (expected = "Game over. Draw!")

C16_Witness ==
    /\ request.op = "game_status"
    /\ response.snapshot.statusText = "Checkmate! White wins!"
    /\ board.turn = BLACK
    /\ InCheck(board.pos, BLACK)

\* The destination squares of the legal moves that start on the square.
Destinations(b, sq) ==
    { SquareName[m.to] : m \in { x \in LegalMoves(b) : x.from = sq } }

\* C17: legal_moves returns the set of destination squares of the legal
\* moves from the given square: every legal destination is in the list
\* exactly once, also when several legal moves share origin and
\* destination (promotions to different pieces).
C17_EachDestinationOnce ==
    (request.op = "legal_moves" /\ parse_square(request.square) # 0) =>
        LET dests == Destinations(board, parse_square(request.square))
            moves == response.moves
        IN /\ { moves[i] : i \in 1..Len(moves) } = dests
           /\ Len(moves) = Cardinality(dests)

\* C18: the board_update of reset has exactly the fields fen, pgn,
\* statusText and orientation, no moves: the starting position, a PGN
\* without moves, orientation white; the board_update of an accepted move
\* has the field moves as well, holding the current rows.
C18_PayloadFields ==
    /\ WasReset =>
          /\ Len(events) = 1
          /\ DOMAIN events[1].data = {"fen", "pgn", "statusText", "orientation"}
          /\ events[1].data.fen = fen(NewBoard)
          /\ events[1].data.pgn.nodes = <<>>
          /\ events[1].data.orientation = "white"
    /\ Accepted =>
          /\ Len(events) = 1
          /\ DOMAIN events[1].data =
                {"fen", "pgn", "statusText", "orientation", "moves"}
          /\ events[1].data.moves = moves_list
          /\ moves_list # <<>>

C18_Witness ==
    /\ WasReset
    /\ request.plies = 2
    /\ Len(events) = 1
    /\ "moves" \notin DOMAIN events[1].data
    /\ events[1].data.fen = fen(NewBoard)

\* C19: after any sequence of completed make_move and reset requests the
\* orientation is white exactly when the board's side to move is White,
\* which is exactly when the move stack has even length; so the rows hold
\* White's moves (the odd plies) in the white fields and Black's moves
\* (the even plies) in the black fields.
C19_OrientationIsSideToMove ==
    /\ (orientation = "white") = (board.turn = WHITE)
    /\ (orientation = "white") = (Len(board.move_stack) % 2 = 0)
    /\ Len(moves_list) = (Len(board.move_stack) + 1) \div 2
    /\ \A k \in 1..Len(moves_list) :
          /\ moves_list[k].WhiteMove = uci(board.move_stack[2 * k - 1])
          /\ moves_list[k].BlackMove =
                IF 2 * k <= Len(board.move_stack)
                THEN uci(board.move_stack[2 * k])
                ELSE "waiting"

C19_Witness ==
    /\ orientation = "black"
    /\ board.turn = BLACK
    /\ Len(board.move_stack) = 3
    /\ Len(moves_list) = 2
    /\ moves_list[1].BlackMove = uci(board.move_stack[2])

\* C20: once the game is over every make_move is rejected and leaves the
\* board, the owners, the rows and the orientation unchanged, until a
\* reset; reset is accepted in every state and leaves a game in which
\* moves are accepted again.
C20_GameOverRejectsMoves ==
    /\ [][(request'.op = "make_move" /\ request'.over) =>
            /\ response'.status = "error"
            /\ StateUnchanged]_vars
    /\ [][request'.op = "reset" =>
            /\ response'.status = "redirect"
            /\ ~IsGameOver(board')
            /\ LegalMoves(board') # {}]_vars
====
